---- MODULE Spec2Model ----
(***************************************************************************)
(* A model of the FJC judge pipeline (judges/fjc_create.py) and of the     *)
(* name-matching tables built from its output (judges/fjc_match.py).       *)
(*                                                                         *)
(* Text is modelled as a sequence of one-character strings, so that        *)
(* cleaning, upper-casing, splitting and key concatenation are computed    *)
(* character by character as the Python code computes them.                *)
(***************************************************************************)
EXTENDS Integers, Sequences, FiniteSets, TLC

VARIABLES
    pc,         \* the step the batch job is about to run, or how it ended
    err,        \* the exception that aborted the job ("" when none)
    vote_row,   \* the row handed to encode_senate_vote
    source_df,  \* the frame as the first step received it (never written)
    df,         \* the judge DataFrame: a sequence of rows, each with its label
    names_df,   \* the frame make_names_df returns (the persisted name index)
    names_file, \* the rows of the name index file read by make_name_dicts
    names,      \* the list of 5 dicts make_name_dicts returns
    query,      \* the lookup asked of the tables
    result      \* the answer to that lookup

vars == <<pc, err, vote_row, source_df, df, names_df, names_file, names, query, result>>

(***************************************************************************)
(* Bounds of the model.                                                    *)
(***************************************************************************)
MaxVoteLen == 5

(***************************************************************************)
(* Text helpers.                                                           *)
(***************************************************************************)
\* All texts of at most n characters over the alphabet S.
SeqsUpTo(S, n) == UNION {[1..k -> S] : k \in 0..n}

Digits == <<"0", "1", "2", "3", "4", "5", "6", "7", "8", "9">>

DigitChars == {Digits[i] : i \in 1..10}

DigitVal(c) == (CHOOSE i \in 1..10 : Digits[i] = c) - 1

\* Python's `sub in s` for a one-character sub.
HasChar(s, c) == \E i \in 1..Len(s) : s[i] = c

\* Python's `sub in s` for the two-character text c c.
HasDouble(s, c) == \E i \in 1..(Len(s) - 1) : s[i] = c /\ s[i + 1] = c

\* Python's s.split(sep) for a one-character separator: the list of parts.
RECURSIVE Split(_, _)
Split(s, sep) ==
    IF ~HasChar(s, sep) THEN <<s>>
    ELSE LET i == CHOOSE k \in 1..Len(s) :
                      s[k] = sep /\ \A j \in 1..(k - 1) : s[j] # sep
         IN <<SubSeq(s, 1, i - 1)>> \o Split(SubSeq(s, i + 1, Len(s)), sep)

\* Whether Python's int(s) accepts s: over the characters the model draws
\* (digits, letters, '/'), exactly the non-empty all-digit texts.
IntOk(s) == Len(s) > 0 /\ \A i \in 1..Len(s) : s[i] \in DigitChars

\* Python's int(s) for a text IntOk accepts (leading zeros are allowed).
RECURSIVE IntOf(_)
IntOf(s) ==
    IF Len(s) = 0 THEN 0
    ELSE 10 * IntOf(SubSeq(s, 1, Len(s) - 1)) + DigitVal(s[Len(s)])

(***************************************************************************)
(* encode_senate_vote (fjc_create.py:128-136).  The result is either the   *)
(* row with senate_percent set, as the exact fraction num/den, or the      *)
(* exception the call raises.                                              *)
(***************************************************************************)
Frac(n, d) == [num |-> n, den |-> d]

Returned(row) == [raised |-> "", row |-> row]

Raised(exc, row) == [raised |-> exc, row |-> row]

encode_senate_vote(row) ==
    IF row.senate_vote_type = <<"V", "o", "i", "c", "e">>
    THEN Returned([row EXCEPT !.senate_percent = Frac(1, 1)])
    ELSE IF HasChar(row.senate_vote, "/") /\ ~HasDouble(row.senate_vote, "/")
    THEN LET parts == Split(row.senate_vote, "/") IN
         IF Len(parts) # 2 THEN Raised("ValueError", row)
         ELSE IF ~IntOk(parts[1]) \/ ~IntOk(parts[2])
         THEN Raised("ValueError", row)
         ELSE LET yeas == IntOf(parts[1])
                  neas == IntOf(parts[2])
              IN IF yeas + neas = 0 THEN Raised("ZeroDivisionError", row)
                 ELSE Returned([row EXCEPT
                                  !.senate_percent = Frac(yeas, yeas + neas)])
    ELSE Returned([row EXCEPT !.senate_percent = Frac(0, 1)])

VoteAlphabet == {"0", "4", "6", "/", "a"}

VoteTypes == {<<"V", "o", "i", "c", "e">>, <<"A", "y", "e", "s">>}

Unset == [num |-> 0, den |-> 0]

NoRow == [senate_vote_type |-> <<>>, senate_vote |-> <<>>,
          senate_percent |-> Unset]

NoQuery == [name |-> <<>>, year |-> 0, court_num |-> 0, circuit_num |-> 0]

InitVote ==
    /\ pc = "encode_senate_vote"
    /\ err = ""
    /\ \E t \in VoteTypes, v \in SeqsUpTo(VoteAlphabet, MaxVoteLen) :
          vote_row = [senate_vote_type |-> t, senate_vote |-> v,
                      senate_percent |-> Unset]
    /\ source_df = <<>>
    /\ df = <<>>
    /\ names_df = <<>>
    /\ names_file = <<>>
    /\ names = <<>>
    /\ query = NoQuery
    /\ result = "none"

\* munge_fjc's .apply(encode_senate_vote, axis = 'columns') on one row; an
\* exception leaves the row as it was and aborts the job.
EncodeSenateVote ==
    /\ pc = "encode_senate_vote"
    /\ LET r == encode_senate_vote(vote_row) IN
          /\ vote_row' = r.row
          /\ err' = r.raised
          /\ pc' = IF r.raised = "" THEN "encoded" ELSE "raised"
    /\ UNCHANGED <<source_df, df, names_df, names_file, names, query, result>>

NextVote == EncodeSenateVote

SpecVote == InitVote /\ [][NextVote]_vars

(***************************************************************************)
(* Name cleaning and name_perms (fjc_create.py:165-185).                   *)
(***************************************************************************)
LowerChars == <<"a", "b", "c", "d", "e", "f", "g", "h", "i", "j", "k", "l",
                "m", "n", "o", "p", "q", "r", "s", "t", "u", "v", "w", "x",
                "y", "z">>

UpperChars == <<"A", "B", "C", "D", "E", "F", "G", "H", "I", "J", "K", "L",
                "M", "N", "O", "P", "Q", "R", "S", "T", "U", "V", "W", "X",
                "Y", "Z">>

\* str.upper() on one character.
UpperChar(c) ==
    IF \E i \in 1..Len(LowerChars) : LowerChars[i] = c
    THEN UpperChars[CHOOSE i \in 1..Len(LowerChars) : LowerChars[i] = c]
    ELSE c

\* A str.upper() that leaves the text as it is.
UpperUnchanged(s) == s

\* str.upper()
Upper(s) == [i \in 1..Len(s) |-> UpperChar(s[i])]

\* The characters the pattern "\.|\,|\[|\]|\'" matches.
PunctChars == {".", ",", "[", "]", "'"}

\* re.sub("\.|\,|\[|\]|\'", '', s)
RECURSIVE RemovePunct(_)
RemovePunct(s) ==
    IF Len(s) = 0 THEN <<>>
    ELSE IF s[1] \in PunctChars THEN RemovePunct(Tail(s))
    ELSE <<s[1]>> \o RemovePunct(Tail(s))

\* str.strip(): leading and trailing blanks removed.
RECURSIVE Strip(_)
Strip(s) ==
    IF Len(s) = 0 THEN s
    ELSE IF s[1] = " " THEN Strip(Tail(s))
    ELSE IF s[Len(s)] = " " THEN Strip(SubSeq(s, 1, Len(s) - 1))
    ELSE s

\* f'{a} {b}' and f'{a} {b} {c}'
Join2(a, b) == a \o <<" ">> \o b

Join3(a, b, c) == a \o <<" ">> \o b \o <<" ">> \o c

name_perms(row) ==
    LET first_name  == RemovePunct(row.first_name)
        last_name   == RemovePunct(row.last_name)
        middle_name == RemovePunct(row.middle_name)
        cleaned     == [row EXCEPT !.first_name = first_name,
                                   !.last_name = last_name,
                                   !.middle_name = middle_name]
        first       == Upper(Strip(first_name))
        middle      == Upper(Strip(middle_name))
        last        == Upper(Strip(last_name))
    IN  IF Len(first) = 0 THEN Raised("IndexError", cleaned)
        ELSE LET first_init  == Upper(<<first[1]>>)
                 middle_init == IF Len(middle) > 0 THEN Upper(<<middle[1]>>)
                                ELSE <<>>
             IN Returned(cleaned @@
                    [name_perm1 |-> Join3(first, middle, last),
                     name_perm2 |-> Join3(first, middle_init, last),
                     name_perm3 |-> Join2(first, last),
                     name_perm4 |-> Join3(first_init, middle, last),
                     name_perm5 |-> Join3(first_init, middle_init, last),
                     name_perm6 |-> Join2(first_init, last),
                     name_perm7 |-> last])

\* The seven name_perm columns of a row, in column order.
Perms(row) == <<row.name_perm1, row.name_perm2, row.name_perm3,
                row.name_perm4, row.name_perm5, row.name_perm6,
                row.name_perm7>>

(***************************************************************************)
(* Configuration read from judges/instructions.py, which is not part of    *)
(* the sources at hand: the two years bounding the analysis window.        *)
(***************************************************************************)
START_YEAR == 2000

END_YEAR == 2001

(***************************************************************************)
(* time_limit (fjc_create.py:138-147).  A missing value (NaN, NaT, '') is  *)
(* the empty sequence and a present value v is <<v>>.                      *)
(***************************************************************************)
NaT == <<>>

NaN == <<>>

Date(y) == <<[year |-> y, month |-> 1, day |-> 1]>>

\* pd.to_datetime(column).dt.year on one cell: '' parses to NaT, whose year is NaN.
YearOf(date) == IF date = NaT THEN NaN ELSE <<date[1].year>>

\* df['end_year'].replace(np.nan, instructions.END_YEAR) on one cell.
ReplaceNaN(v, with) == IF v = NaN THEN with ELSE v[1]

\* The end_year mask with the boundary year let through (>= for >).
EndYearMaskInclusive(row) == row.end_year >= START_YEAR - 2

\* The row mask df['end_year'] > instructions.START_YEAR - 2.
EndYearMask(row) == row.end_year > START_YEAR - 2

\* The start_year mask with a missing start year let through.
StartYearMaskLoose(row) == row.start_year = NaN \/ row.start_year[1] <= END_YEAR

\* The row mask df['start_year'] <= instructions.END_YEAR; NaN compares False.
StartYearMask(row) == row.start_year # NaN /\ row.start_year[1] <= END_YEAR

WithYears(row) ==
    row @@ [end_year   |-> ReplaceNaN(YearOf(row.termination_date), END_YEAR),
            start_year |-> YearOf(row.start_date)]

time_limit(frame) ==
    LET dated == [i \in 1..Len(frame) |-> WithYears(frame[i])]
    IN  SelectSeq(SelectSeq(dated, EndYearMask), StartYearMask)

(***************************************************************************)
(* name_changes (fjc_create.py:149-163).  df.loc[index_num] selects by row *)
(* label (the frame is not indexed by nid: set_index('nid') is commented   *)
(* out in munge_fjc), raises KeyError when no row has the label, and       *)
(* df.append adds the changed copy at the end under the same label.        *)
(***************************************************************************)
RandallId == 1386716

SamId == 1382851

Randall == <<"R", "a", "n", "d", "a", "l", "l">>

Sam == <<"S", "a", "m">>

\* df.loc[index_num]: the rows carrying that label.
Loc(frame, index_num) ==
    LET HasLabel(row) == row.label = index_num IN SelectSeq(frame, HasLabel)

\* df.append(make_change(df, index_num, col_name, value)) inside try/except.
ChangeLastName(frame, index_num, value) ==
    LET hit == Loc(frame, index_num) IN
    IF Len(hit) = 0 THEN frame
    ELSE frame \o [i \in 1..Len(hit) |-> [hit[i] EXCEPT !.last_name = value]]

ChangeFirstName(frame, index_num, value) ==
    LET hit == Loc(frame, index_num) IN
    IF Len(hit) = 0 THEN frame
    ELSE frame \o [i \in 1..Len(hit) |-> [hit[i] EXCEPT !.first_name = value]]

name_changes(frame) ==
    ChangeFirstName(ChangeLastName(frame, RandallId, Randall), SamId, Sam)

(***************************************************************************)
(* make_names_df (fjc_create.py:187-200).                                  *)
(***************************************************************************)
\* The value make_names_df gives the year column (df['year'] = 0).
YearColumn(row) == 0

\* One row of the long frame: the id columns of `row` and its k-th variant.
LongRow(row, k) ==
    [start_year  |-> row.start_year,
     end_year    |-> row.end_year,
     court_num   |-> row.court_num,
     circuit_num |-> row.circuit_num,
     judge_name  |-> row.judge_name,
     year        |-> YearColumn(row),
     name_perm   |-> Perms(row)[k]]

\* pd.wide_to_long(df, stubnames = 'name_perm', i = 'nindex', j = 'nperm'):
\* the melted columns one after the other, i.e. every record's name_perm1
\* in frame order, then every record's name_perm2, and so on to name_perm7.
WideToLong(frame) ==
    [n \in 1..(7 * Len(frame)) |->
        LongRow(frame[((n - 1) % Len(frame)) + 1], ((n - 1) \div Len(frame)) + 1)]

\* df[df.name_perm != '']
NonEmptyPerm(row) == row.name_perm # <<>>

\* df.drop_duplicates(ignore_index = True): the first of equal rows is kept.
RECURSIVE DropDuplicates(_)
DropDuplicates(rows) ==
    IF Len(rows) = 0 THEN <<>>
    ELSE LET rest == DropDuplicates(SubSeq(rows, 1, Len(rows) - 1))
             last == rows[Len(rows)]
         IN IF \E i \in 1..Len(rest) : rest[i] = last THEN rest
            ELSE Append(rest, last)

make_names_df(frame) ==
    DropDuplicates(SelectSeq(WideToLong(frame), NonEmptyPerm))

(***************************************************************************)
(* The batch job of fjc_create (munge_fjc from time_limit on, then         *)
(* make_names_df and the write of the name index), one action per step;    *)
(* fjc_match then reads the file the job wrote.                            *)
(*                                                                         *)
(* A row carries its index label.  The merged frame is labelled 0..N-1 and *)
(* time_limit keeps the labels of the rows it retains; the model follows a *)
(* selection of rows of that frame with increasing labels, every other row *)
(* being one time_limit drops (all later steps work row by row or by       *)
(* label).                                                                 *)
(***************************************************************************)
MaxRows == 2

Labels == {0, SamId, RandallId}

Years == (START_YEAR - 3)..(END_YEAR + 1)

\* Rows that exercise the service window: every start and termination date.
WindowRows ==
    {[nid |-> 7, first_name |-> <<"a", "l">>, middle_name |-> <<>>,
      last_name |-> <<"o">>, start_date |-> s, termination_date |-> t,
      court_num |-> 5, circuit_num |-> 1, judge_name |-> "J1"] :
        s \in {NaT} \cup {Date(y) : y \in {START_YEAR - 3, START_YEAR,
                                           END_YEAR, END_YEAR + 1}},
        t \in {NaT} \cup {Date(y) : y \in Years \ {END_YEAR + 1}}}

\* Rows that exercise the name repair and the name index: identities, names
\* and courts vary; every row serves from START_YEAR to the present.
RepairRows ==
    {[nid |-> n, first_name |-> f, middle_name |-> <<"q">>,
      last_name |-> l, start_date |-> Date(START_YEAR),
      termination_date |-> NaT,
      court_num |-> c[1], circuit_num |-> c[2], judge_name |-> c[3]] :
        n \in {SamId, RandallId},
        f \in {<<>>, <<"a", "l">>},
        l \in {<<>>, <<"o">>},
        c \in {<<5, 1, "J1">>, <<5, 1, "J2">>, <<1, 5, "J2">>}}

\* The frames of at most MaxRows rows over `rows`, labelled increasingly.
Frames(rows, labels) ==
    {f \in UNION {[1..k -> [row : rows, label : labels]] : k \in 0..MaxRows} :
        \A i \in 1..(Len(f) - 1) : f[i].label < f[i + 1].label}

Labelled(f) == [i \in 1..Len(f) |-> f[i].row @@ [label |-> f[i].label]]

Init ==
    /\ pc = "time_limit"
    /\ err = ""
    /\ vote_row = NoRow
    /\ \E f \in Frames(WindowRows, 0..(MaxRows - 1))
                  \cup Frames(RepairRows, Labels) : df = Labelled(f)
    /\ source_df = df
    /\ names_df = <<>>
    /\ names_file = <<>>
    /\ names = <<>>
    /\ query = NoQuery
    /\ result = "none"

TimeLimit ==
    /\ pc = "time_limit"
    /\ df' = time_limit(df)
    /\ pc' = "name_changes"
    /\ UNCHANGED <<err, vote_row, source_df, names_df, names_file, names, query, result>>

NameChanges ==
    /\ pc = "name_changes"
    /\ df' = name_changes(df)
    /\ pc' = "name_perms"
    /\ UNCHANGED <<err, vote_row, source_df, names_df, names_file, names, query, result>>

\* DataFrame.reset_index(): the rows are relabelled 0..n-1 and the old labels
\* become the column 'index'.
reset_index(frame) ==
    [i \in 1..Len(frame) |->
        [frame[i] EXCEPT !.label = i - 1] @@ [index |-> frame[i].label]]

\* .apply(name_perms, axis = 'columns').reset_index(), the end of munge_fjc:
\* the first row that raises aborts.
NamePerms ==
    /\ pc = "name_perms"
    /\ LET out == [i \in 1..Len(df) |-> name_perms(df[i])] IN
          IF \E i \in 1..Len(df) : out[i].raised # ""
          THEN /\ err' = out[CHOOSE i \in 1..Len(df) :
                               /\ out[i].raised # ""
                               /\ \A j \in 1..(i - 1) : out[j].raised = ""].raised
               /\ pc' = "raised"
               /\ df' = df
          ELSE /\ err' = err
               /\ pc' = "make_names_df"
               /\ df' = reset_index([i \in 1..Len(df) |-> out[i].row])
    /\ UNCHANGED <<vote_row, source_df, names_df, names_file, names, query, result>>

\* main's make_names_df(df = df), after the judge table itself went to
\* OUTPUT_PATH (a file nothing reads again).  DataFrame.apply on a frame without rows
\* returns a copy of it, so no name_perm column exists and the column
\* selection of make_names_df raises KeyError.
MakeNamesDf ==
    /\ pc = "make_names_df"
    /\ IF Len(df) = 0
       THEN /\ err' = "KeyError"
            /\ pc' = "raised"
            /\ names_df' = names_df
       ELSE /\ err' = err
            /\ pc' = "to_csv"
            /\ names_df' = make_names_df(df)
    /\ UNCHANGED <<vote_row, source_df, df, names_file, names, query, result>>

\* main's names.to_csv(instructions.NAMES_PATH, index = False): the rows of
\* the index, in order, become the rows of the file.
ToCsv ==
    /\ pc = "to_csv"
    /\ names_file' = names_df
    /\ pc' = "make_name_dicts"
    /\ UNCHANGED <<err, vote_row, source_df, df, names_df, names, query, result>>

(***************************************************************************)
(* name_perms on its own: one row that has passed time_limit, its three    *)
(* names drawn from every text over a letter, the blank and a full stop.   *)
(***************************************************************************)
MaxNameLen == 3

MaxLastLen == 1

NameAlphabet == {"a", " ", "."}

InitPerms ==
    /\ pc = "name_perms"
    /\ err = ""
    /\ vote_row = NoRow
    /\ \E f \in SeqsUpTo(NameAlphabet, MaxNameLen),
          m \in SeqsUpTo(NameAlphabet, MaxNameLen),
          l \in SeqsUpTo(NameAlphabet, MaxLastLen) :
          df = <<[label |-> 0, nid |-> 7, first_name |-> f, middle_name |-> m,
                  last_name |-> l, start_date |-> Date(START_YEAR),
                  termination_date |-> NaT, start_year |-> <<START_YEAR>>,
                  end_year |-> END_YEAR, court_num |-> 5, circuit_num |-> 1,
                  judge_name |-> "J1"]>>
    /\ source_df = df
    /\ names_df = <<>>
    /\ names_file = <<>>
    /\ names = <<>>
    /\ query = NoQuery
    /\ result = "none"

NextPerms == NamePerms

SpecPerms == InitPerms /\ [][NextPerms]_vars

(***************************************************************************)
(* fjc_match.py: the composite keys and the five tables of                 *)
(* make_name_dicts, built from the rows of the name index file.            *)
(***************************************************************************)
\* Python's str(n) for an integer n >= 0.
RECURSIVE StrOf(_)
StrOf(n) ==
    IF n < 10 THEN <<Digits[n + 1]>>
    ELSE StrOf(n \div 10) \o <<Digits[(n % 10) + 1]>>

\* convert_judge_name (fjc_match.py:13-19), the key of one lookup.
convert_judge_name(year, court, name, dict_type) ==
    IF dict_type = 1 THEN StrOf(court * 10000 + year) \o name
    ELSE IF dict_type = 2 THEN StrOf(year) \o name
    ELSE name

\* Python's None (no text: texts are sequences of characters).
None == "None"

\* convert_judge_name_series (fjc_match.py:21-27) on one row of the columns;
\* for a dict_type other than 1 and 2 the function falls off its end.
convert_judge_name_series(year, court, name, dict_type) ==
    IF dict_type = 1 THEN StrOf(court * 10000 + year) \o name
    ELSE IF dict_type = 2 THEN StrOf(year) \o name
    ELSE None

\* The columns make_name_dicts adds to one row of the file.
WithConcatNames(row) ==
    LET name_perm == Upper(row.name_perm) IN
    [year |-> row.year, court_num |-> row.court_num,
     circuit_num |-> row.circuit_num, judge_name |-> row.judge_name,
     name_perm |-> name_perm,
     concat_name1 |-> convert_judge_name_series(row.year, row.court_num,
                                                name_perm, 1),
     concat_name2 |-> convert_judge_name_series(row.year, row.circuit_num,
                                                name_perm, 1),
     concat_name3 |-> convert_judge_name_series(row.year, row.court_num,
                                                name_perm, 2),
     concat_name4 |-> convert_judge_name_series(row.year, row.circuit_num,
                                                name_perm, 2)]

\* A dict write that keeps the value already stored under the key.
PutIfAbsent(d, key, value) ==
    [k \in (DOMAIN d) \cup {key} |-> IF k \in DOMAIN d THEN d[k] ELSE value]

\* dict[key] = value
Put(d, key, value) ==
    [k \in (DOMAIN d) \cup {key} |-> IF k = key THEN value ELSE d[k]]

\* df.set_index(column).to_dict()['judge_name']: the rows are written to the
\* dict in row order.
RECURSIVE ToDict(_, _)
ToDict(rows, column) ==
    IF Len(rows) = 0 THEN <<>>
    ELSE Put(ToDict(SubSeq(rows, 1, Len(rows) - 1), column),
             rows[Len(rows)][column], rows[Len(rows)].judge_name)

\* The tables appended with the circuit-level one ahead of the court-level one.
TableColumnsCircuitFirst == <<"concat_name2", "concat_name1", "concat_name3",
                              "concat_name4", "name_perm">>

\* The order in which make_name_dicts appends the tables to `names`.
TableColumns == <<"concat_name1", "concat_name2", "concat_name3",
                  "concat_name4", "name_perm">>

make_name_dicts(file) ==
    LET rows == [i \in 1..Len(file) |-> WithConcatNames(file[i])]
    IN  [t \in 1..5 |-> ToDict(rows, TableColumns[t])]

\* The lookup of section 4.6: the key of each table in turn, first hit wins.
LookupKeys(q) ==
    <<convert_judge_name(q.year, q.court_num, q.name, 1),
      convert_judge_name(q.year, q.circuit_num, q.name, 1),
      convert_judge_name(q.year, q.court_num, q.name, 2),
      convert_judge_name(q.year, q.circuit_num, q.name, 2),
      convert_judge_name(q.year, q.court_num, q.name, 3)>>

resolve(tables, q) ==
    LET keys == LookupKeys(q)
        Hit(t) == keys[t] \in DOMAIN tables[t]
    IN  IF \E t \in 1..5 : Hit(t)
        THEN LET t == CHOOSE u \in 1..5 : Hit(u) /\ \A v \in 1..(u - 1) : ~Hit(v)
             IN tables[t][keys[t]]
        ELSE "NotFound"

\* The lookups asked: a name of the index and one that is not in it, the
\* year the index carries and a service year, court and circuit numbers.
Queries ==
    {[name |-> n, year |-> y, court_num |-> c[1], circuit_num |-> c[2]] :
        n \in {<<"O">>, <<"Z">>},
        y \in {0, START_YEAR},
        c \in {<<5, 1>>, <<5, 5>>, <<1, 5>>}}

\* fjc_match.main: the tables are built from the file fjc_create.main wrote.
MakeNameDicts ==
    /\ pc = "make_name_dicts"
    /\ names' = make_name_dicts(names_file)
    /\ pc' = "ready"
    /\ UNCHANGED <<err, vote_row, source_df, df, names_df, names_file, query, result>>

\* One lookup against the built tables.
Resolve ==
    /\ pc = "ready"
    /\ \E q \in Queries :
          /\ query' = q
          /\ result' = resolve(names, q)
    /\ pc' = "answered"
    /\ UNCHANGED <<err, vote_row, source_df, df, names_df, names_file, names>>

\* The caller takes the answer; the tables are ready for the next lookup.
Return ==
    /\ pc = "answered"
    /\ pc' = "ready"
    /\ query' = NoQuery
    /\ result' = "none"
    /\ UNCHANGED <<err, vote_row, source_df, df, names_df, names_file, names>>

Next ==
    \/ TimeLimit
    \/ NameChanges
    \/ NamePerms
    \/ MakeNamesDf
    \/ ToCsv
    \/ MakeNameDicts
    \/ Resolve
    \/ Return

Spec == Init /\ [][Next]_vars

(***************************************************************************)
(* What the claims say, stated apart from the operators above.             *)
(***************************************************************************)
\* A name as the specification describes it after cleaning: the characters
\* . , [ ] ' removed, surrounding blanks dropped, letters of NameAlphabet
\* upper-cased.
CleanedText(s) ==
    LET NotPunct(c) == c \notin {".", ",", "[", "]", "'"}
        kept  == SelectSeq(s, NotPunct)
        solid == {i \in 1..Len(kept) : kept[i] # " "}
    IN  IF solid = {} THEN <<>>
        ELSE LET lo == CHOOSE i \in solid : \A j \in solid : i <= j
                 hi == CHOOSE i \in solid : \A j \in solid : j <= i
             IN [i \in 1..(hi - lo + 1) |->
                    IF kept[lo + i - 1] = "a" THEN "A" ELSE kept[lo + i - 1]]

\* Whether the frame holds a row with this label.
Kept(frame, label) == \E j \in 1..Len(frame) : frame[j].label = label

\* Whether both dates of a row are present, and their years.
Dated(row) == row.start_date # NaT /\ row.termination_date # NaT

StartOf(row) == row.start_date[1].year

EndOf(row) == row.termination_date[1].year

InWindow(y) == START_YEAR <= y /\ y <= END_YEAR

\* C1 (as claimed): a record with an empty middle name and non-empty first
\* and last names gets name_perm1 = FIRST + ' ' + LAST, one blank between.
C1_SingleSpace ==
    pc # "name_perms" =>
        LET first  == CleanedText(source_df[1].first_name)
            middle == CleanedText(source_df[1].middle_name)
            last   == CleanedText(source_df[1].last_name)
        IN  (middle = <<>> /\ first # <<>> /\ last # <<>>) =>
                /\ pc = "make_names_df"
                /\ df[1].name_perm1 = first \o <<" ">> \o last

\* C2 (as claimed): with non-empty first and last names the seven outputs
\* are pairwise distinct and name_perm7 is the cleaned upper-cased last name.
C2_SevenDistinct ==
    pc # "name_perms" =>
        LET first == CleanedText(source_df[1].first_name)
            last  == CleanedText(source_df[1].last_name)
        IN  (first # <<>> /\ last # <<>>) =>
                /\ pc = "make_names_df"
                /\ Cardinality({Perms(df[1])[k] : k \in 1..7}) = 7
                /\ df[1].name_perm7 = last

\* C2 (amended): with non-empty first and last names name_perms returns,
\* name_perm7 is the cleaned, stripped, upper-cased last name, and the seven
\* outputs are pairwise distinct when the cleaned first and middle names have
\* two characters or more each and the first name holds no blank; with a
\* middle name of at most one character name_perm1 = name_perm2, and with a
\* first name of one character name_perm1 = name_perm4.
C2_Amended ==
    pc # "name_perms" =>
        LET first  == CleanedText(source_df[1].first_name)
            middle == CleanedText(source_df[1].middle_name)
            last   == CleanedText(source_df[1].last_name)
        IN  (first # <<>> /\ last # <<>>) =>
                /\ pc = "make_names_df"
                /\ df[1].name_perm7 = last
                /\ (Len(first) >= 2 /\ Len(middle) >= 2 /\ ~HasChar(first, " "))
                      => Cardinality({Perms(df[1])[k] : k \in 1..7}) = 7
                /\ Len(middle) <= 1 => df[1].name_perm1 = df[1].name_perm2
                /\ Len(first) = 1 => df[1].name_perm1 = df[1].name_perm4

\* C2 witness: a record with non-empty names whose seven outputs are distinct.
C2_Witness ==
    /\ pc = "make_names_df"
    /\ Len(df[1].name_perm7) > 0
    /\ Cardinality({Perms(df[1])[k] : k \in 1..7}) = 7

\* C10 (as claimed): name_perms never raises; an empty first name has the
\* empty initial (name_perm6 = '' + ' ' + LAST) and so has an empty middle
\* name (name_perm5 = INITIAL + ' ' + '' + ' ' + LAST).
C10_EmptyInitial ==
    pc # "name_perms" =>
        LET first  == CleanedText(source_df[1].first_name)
            middle == CleanedText(source_df[1].middle_name)
            last   == CleanedText(source_df[1].last_name)
        IN  /\ pc = "make_names_df"
            /\ first = <<>> => df[1].name_perm6 = <<" ">> \o last
            /\ (first # <<>> /\ middle = <<>>) =>
                  df[1].name_perm5 = <<first[1], " ", " ">> \o last

\* C6 (as claimed): with its start year inside the window, a record that
\* ends in START_YEAR - 2 is retained and one that ends in START_YEAR - 3 is
\* dropped.
C6_GraceBoundary ==
    pc = "name_changes" =>
        \A i \in 1..Len(source_df) :
            LET row == source_df[i] IN
            (Dated(row) /\ InWindow(StartOf(row))) =>
                /\ EndOf(row) = START_YEAR - 2 => Kept(df, row.label)
                /\ EndOf(row) = START_YEAR - 3 => ~Kept(df, row.label)

\* C6 (amended): with its start year inside the window, a record that ends
\* in START_YEAR - 1 is retained and one that ends in START_YEAR - 2 (or in
\* START_YEAR - 3) is dropped.
C6_Amended ==
    pc = "name_changes" =>
        \A i \in 1..Len(source_df) :
            LET row == source_df[i] IN
            (Dated(row) /\ InWindow(StartOf(row))) =>
                /\ EndOf(row) = START_YEAR - 1 => Kept(df, row.label)
                /\ EndOf(row) = START_YEAR - 2 => ~Kept(df, row.label)
                /\ EndOf(row) = START_YEAR - 3 => ~Kept(df, row.label)

\* C6 witness: time_limit has run on a frame holding a record that ends in
\* START_YEAR - 1, which it kept, and one that ends in START_YEAR - 2, which
\* it dropped, both starting inside the window.
C6_Witness ==
    /\ pc = "name_changes"
    /\ \E i, j \in 1..Len(source_df) :
          /\ Dated(source_df[i]) /\ InWindow(StartOf(source_df[i]))
          /\ EndOf(source_df[i]) = START_YEAR - 1
          /\ Kept(df, source_df[i].label)
          /\ Dated(source_df[j]) /\ InWindow(StartOf(source_df[j]))
          /\ EndOf(source_df[j]) = START_YEAR - 2
          /\ ~Kept(df, source_df[j].label)

\* C8 (as claimed): every record that has left time_limit has non-null
\* start_year and end_year with end_year >= start_year.
C8_EndNotBeforeStart ==
    pc # "time_limit" =>
        \A i \in 1..Len(df) :
            /\ df[i].start_year # NaN
            /\ df[i].end_year >= df[i].start_year[1]

\* C8 (amended): every record that has left time_limit has a non-null
\* start_year <= END_YEAR and a non-null end_year > START_YEAR - 2; the two
\* years are not compared with each other: a record that ends before it
\* starts, both years inside the window, is retained.
C8_Amended ==
    pc # "time_limit" =>
        /\ \A i \in 1..Len(df) :
              /\ df[i].start_year # NaN
              /\ df[i].start_year[1] <= END_YEAR
              /\ df[i].end_year \in Int
              /\ df[i].end_year > START_YEAR - 2
        /\ pc = "name_changes" =>
              \A i \in 1..Len(source_df) :
                  LET row == source_df[i] IN
                  (/\ Dated(row)
                   /\ InWindow(StartOf(row)) /\ InWindow(EndOf(row))
                   /\ EndOf(row) < StartOf(row)) => Kept(df, row.label)

\* C8 witness: a record that ends before it starts has left time_limit.
C8_Witness ==
    /\ pc = "name_changes"
    /\ \E i \in 1..Len(df) :
          /\ df[i].start_year # NaN
          /\ df[i].end_year < df[i].start_year[1]

\* C9 (as claimed): name_changes patches in place.  When a record of
\* identity 1386716 is present, the number of records is unchanged and every
\* record of that identity has last_name 'Randall' (every record of identity
\* 1382851 first_name 'Sam'); when neither identity is present the table is
\* returned unchanged.
C9_PatchedInPlace ==
    [][pc = "name_changes" =>
         LET Present(nid) == \E i \in 1..Len(df) : df[i].nid = nid IN
         /\ Present(RandallId) =>
               /\ Len(df') = Len(df)
               /\ \A i \in 1..Len(df') :
                     df'[i].nid = RandallId => df'[i].last_name = Randall
         /\ Present(SamId) =>
               /\ Len(df') = Len(df)
               /\ \A i \in 1..Len(df') :
                     df'[i].nid = SamId => df'[i].first_name = Sam
         /\ (~Present(RandallId) /\ ~Present(SamId)) => df' = df]_vars

\* C3 (as claimed): the name index holds, for every surviving record, every
\* year y of its service and every non-empty variant p, the row
\* (y, court_num, circuit_num, p, judge_name).
C3_RowPerServiceYear ==
    pc = "to_csv" =>
        \A i \in 1..Len(df), k \in 1..7 :
            \A y \in (df[i].start_year[1])..(df[i].end_year) :
                Perms(df[i])[k] # <<>> =>
                    \E j \in 1..Len(names_df) :
                        /\ names_df[j].year = y
                        /\ names_df[j].court_num = df[i].court_num
                        /\ names_df[j].circuit_num = df[i].circuit_num
                        /\ names_df[j].name_perm = Perms(df[i])[k]
                        /\ names_df[j].judge_name = df[i].judge_name

\* C7 (as claimed): encode_senate_vote never raises; 'Voice' gives 1, a
\* tally '<yeas>/<nays>' with one slash, two numbers and a non-zero total
\* gives yeas/(yeas+nays), and every other text gives 0.
C7_TotalEncoding ==
    pc # "encode_senate_vote" =>
        LET vote    == vote_row.senate_vote
            slashes == {i \in 1..Len(vote) : vote[i] = "/"}
            IsNum(i, j) == i <= j /\ \A k \in i..j : vote[k] \in DigitChars
            Tally   == /\ Cardinality(slashes) = 1
                       /\ \E p \in slashes :
                             /\ IsNum(1, p - 1) /\ IsNum(p + 1, Len(vote))
                             /\ IntOf(SubSeq(vote, 1, p - 1))
                                  + IntOf(SubSeq(vote, p + 1, Len(vote))) > 0
            got     == vote_row.senate_percent
        IN  /\ pc = "encoded"
            /\ vote_row.senate_vote_type = <<"V", "o", "i", "c", "e">>
                  => got.num = got.den
            /\ (vote_row.senate_vote_type # <<"V", "o", "i", "c", "e">>
                  /\ Tally) =>
                  LET p == CHOOSE q \in slashes : TRUE
                      yeas == IntOf(SubSeq(vote, 1, p - 1))
                      nays == IntOf(SubSeq(vote, p + 1, Len(vote)))
                  IN got.den > 0 /\ got.num * (yeas + nays) = yeas * got.den
            /\ (vote_row.senate_vote_type # <<"V", "o", "i", "c", "e">>
                  /\ ~Tally) => (got.den > 0 /\ got.num = 0)

\* The key a row of the file has in table t.
KeyIn(t, row) == WithConcatNames(row)[TableColumns[t]]

\* The keys the rows of a file have in table t, row by row.
RECURSIVE KeysIn(_, _)
KeysIn(t, file) ==
    IF file = <<>> THEN <<>>
    ELSE Append(KeysIn(t, SubSeq(file, 1, Len(file) - 1)),
                KeyIn(t, file[Len(file)]))

\* C4: in each of the 5 tables, the value stored under a key is the
\* judge_name of the last row of the file that produces the key, and the
\* table's keys are exactly the keys the rows produce.
C4_LastWriteWins ==
    pc = "ready" =>
        \A t \in 1..5 :
            LET keys == KeysIn(t, names_file) IN
            /\ DOMAIN names[t] = {keys[i] : i \in 1..Len(keys)}
            /\ \A i \in 1..Len(keys) :
                  (\A j \in (i + 1)..Len(keys) : keys[j] # keys[i])
                  => names[t][keys[i]] = names_file[i].judge_name

\* C4 witness: the tables are built from a file in which two rows with
\* different judges produce the same court-level key, and the later row's
\* judge is the one stored.
C4_Witness ==
    /\ pc = "ready"
    /\ \E i, j \in 1..Len(names_file) :
          /\ i < j
          /\ KeyIn(1, names_file[i]) = KeyIn(1, names_file[j])
          /\ names_file[i].judge_name # names_file[j].judge_name
          /\ names[1][KeyIn(1, names_file[j])] = names_file[j].judge_name

\* The rows of the file a lookup matches at court level, and by name alone.
CourtRows(q) ==
    {i \in 1..Len(names_file) :
        /\ names_file[i].year = q.year
        /\ names_file[i].court_num = q.court_num
        /\ Upper(names_file[i].name_perm) = q.name}

NameRows(q) ==
    {i \in 1..Len(names_file) : Upper(names_file[i].name_perm) = q.name}

LastOf(S) == CHOOSE i \in S : \A j \in S : j <= i

\* C5: a lookup with full context is answered from the court-level table
\* whenever a row of the file matches the name in that court and year (the
\* answer is the last such row's judge, whatever the circuit-level and
\* bare-name tables hold for the name), and is NotFound when no row of the
\* file carries the name, so that none of the five tables holds a key.
C5_CourtLevelFirst ==
    pc = "answered" =>
        /\ CourtRows(query) # {} =>
              /\ LookupKeys(query)[1] \in DOMAIN names[1]
              /\ result = names_file[LastOf(CourtRows(query))].judge_name
        /\ NameRows(query) = {} =>
              /\ \A t \in 1..5 : LookupKeys(query)[t] \notin DOMAIN names[t]
              /\ result = "NotFound"

\* C5 witness: a lookup was answered from the court-level table although
\* the circuit-level table and the bare-name table both hold the name for
\* another judge.
C5_Witness ==
    /\ pc = "answered"
    /\ CourtRows(query) # {}
    /\ LookupKeys(query)[2] \in DOMAIN names[2]
    /\ names[2][LookupKeys(query)[2]] # result
    /\ names[5][query.name] # result
    /\ result = names[1][LookupKeys(query)[1]]

====
